---------------------------- MODULE Spec2Model ----------------------------
(***************************************************************************)
(* Model of the two delivery modes of the water-rights map:                *)
(*   build_static.py    the pre-rendered export with one frame per year    *)
(*   mapa_agua_dash.py  the dashboard whose callback update_map recomputes *)
(*                      the map on each year selection                     *)
(* A table (DataFrame) is a sequence of rows, a row a record.  A float is  *)
(* a record [k, n, d]: NaN, +inf or the exact fraction n/d (binary         *)
(* rounding is not modelled).  A string that the code builds from a number *)
(* (str(yr), the column name "a2000") is the sequence of its characters.   *)
(* A geometry is a record of the source shape and of the operations        *)
(* applied to it (buffer(0), the rotations with their angle and origin).   *)
(***************************************************************************)
EXTENDS Integers, Sequences, FiniteSets

VARIABLES script, pc, file, pop_file, aus_file, geo_file,
          counts, pop, global_max, aus, regions, chile_centroid,
          years, year_text, fig, gdf_map, out

vars == <<script, pc, file, pop_file, aus_file, geo_file,
          counts, pop, global_max, aus, regions, chile_centroid,
          years, year_text, fig, gdf_map, out>>

(***************************************************************************)
(* Bounds of the input files.                                              *)
(***************************************************************************)
MaxRecords == 2

TxRegions == {"I", "II"}

Years == {2000, 2002}

PopRegions == <<1, 2>>

PopCounts == {0, 1}

(***************************************************************************)
(* Floats.                                                                 *)
(***************************************************************************)
RECURSIVE GCD(_, _)
GCD(a, b) ==
    IF b = 0 THEN a ELSE GCD(b, a % b)

NaN == [k |-> "nan", n |-> 0, d |-> 1]

Inf == [k |-> "inf", n |-> 0, d |-> 1]

Num(n, d) ==
    LET g == GCD(n, d) IN [k |-> "num", n |-> n \div g, d |-> d \div g]

IsNaN(a) == a.k = "nan"

\* a / b
FDiv(a, b) ==
    IF IsNaN(a) \/ IsNaN(b) THEN NaN
    ELSE IF b.k = "inf" THEN (IF a.k = "inf" THEN NaN ELSE Num(0, 1))
    ELSE IF a.k = "inf" THEN Inf
    ELSE IF b.n = 0 THEN (IF a.n = 0 THEN NaN ELSE Inf)
    ELSE Num(a.n * b.d, a.d * b.n)

\* a * c for an integer c > 0
FMul(a, c) ==
    IF a.k = "num" THEN Num(a.n * c, a.d) ELSE a

\* a + b
FAdd(a, b) ==
    IF IsNaN(a) \/ IsNaN(b) THEN NaN
    ELSE IF a.k = "inf" \/ b.k = "inf" THEN Inf
    ELSE Num(a.n * b.d + b.n * a.d, a.d * b.d)

\* a <= b; every comparison with NaN is false
FLe(a, b) ==
    IF IsNaN(a) \/ IsNaN(b) THEN FALSE
    ELSE IF b.k = "inf" THEN TRUE
    ELSE IF a.k = "inf" THEN FALSE
    ELSE a.n * b.d <= b.n * a.d

\* Series.sum(): NaN entries are skipped, the empty sum is 0
RECURSIVE FSum(_)
FSum(s) ==
    IF s = << >> THEN Num(0, 1)
    ELSE IF IsNaN(Head(s)) THEN FSum(Tail(s))
    ELSE FAdd(Head(s), FSum(Tail(s)))

\* the first entry that is not NaN, in place of the largest
RECURSIVE FFirst(_)
FFirst(s) ==
    IF s = << >> THEN NaN
    ELSE IF IsNaN(Head(s)) THEN FFirst(Tail(s)) ELSE Head(s)

\* Series.max(): NaN entries are skipped, NaN when nothing is left
RECURSIVE FMax(_)
FMax(s) ==
    IF s = << >> THEN NaN
    ELSE LET m == FMax(Tail(s))
         IN  IF IsNaN(Head(s)) THEN m
             ELSE IF IsNaN(m) THEN Head(s)
             ELSE IF FLe(m, Head(s)) THEN Head(s) ELSE m

\* bool(x) of a number: zero is false, everything else (NaN too) is true
Truthy(a) == ~(a.k = "num" /\ a.n = 0)

(***************************************************************************)
(* Sequences and strings.                                                  *)
(***************************************************************************)
Range(s) == {s[i] : i \in DOMAIN s}

RECURSIVE Flatten(_)
Flatten(ss) ==
    IF ss = << >> THEN << >> ELSE Head(ss) \o Flatten(Tail(ss))

RECURSIVE SumInts(_)
SumInts(s) ==
    IF s = << >> THEN 0 ELSE Head(s) + SumInts(Tail(s))

\* sorted(set) of integers
RECURSIVE SortedInts(_)
SortedInts(S) ==
    IF S = {} THEN << >>
    ELSE LET m == CHOOSE x \in S : \A y \in S : x <= y
         IN  <<m>> \o SortedInts(S \ {m})

Digit == <<"0", "1", "2", "3", "4", "5", "6", "7", "8", "9">>

\* str(n) for n >= 0
RECURSIVE IntToStr(_)
IntToStr(n) ==
    IF n < 10 THEN <<Digit[n + 1]>>
    ELSE Append(IntToStr(n \div 10), Digit[(n % 10) + 1])

\* int(s) of a string of digits
RECURSIVE StrToInt(_)
StrToInt(s) ==
    IF s = << >> THEN 0
    ELSE 10 * StrToInt(SubSeq(s, 1, Len(s) - 1))
         + ((CHOOSE i \in DOMAIN Digit : Digit[i] = s[Len(s)]) - 1)

\* s.lstrip(c)
RECURSIVE LStrip(_, _)
LStrip(s, c) ==
    IF s # << >> /\ Head(s) = c THEN LStrip(Tail(s), c) ELSE s

(***************************************************************************)
(* The input files.                                                        *)
(***************************************************************************)
\* The transaction types a record of "base final.dta" may carry here: two of
\* the valid ones and one that is not.
InputTypes == <<"COMPRAVENTA", "PERMUTA", "HIPOTECA">>

\* Lexicographic order of the region identifiers, as strings compare.
RomanLex == <<"I", "II", "III", "IV", "IX", "V", "VI", "VII", "VIII", "X",
              "XI", "XII", "XIII", "XIV", "XV", "XVI">>

LexRank(s) == CHOOSE i \in DOMAIN RomanLex : RomanLex[i] = s

FileRows ==
    [numero_region : TxRegions,
     RegistroAnoCBRActual : {Num(y, 1) : y \in Years},
     TipodeTransaccion : Range(InputTypes)]

FileRowRank(r) ==
    (LexRank(r.numero_region) * 10000 + r.RegistroAnoCBRActual.n) * 10
    + (CHOOSE i \in DOMAIN InputTypes : InputTypes[i] = r.TipodeTransaccion)

\* "base final.dta": up to MaxRecords records; the order of the records is
\* immaterial to every step, so one order stands for each multiset.
RecordTables ==
    {s \in UNION {[1..n -> FileRows] : n \in 0..MaxRecords} :
        \A i \in 1..(Len(s) - 1) : FileRowRank(s[i]) <= FileRowRank(s[i + 1])}

ColName(y) == <<"a">> \o IntToStr(y)

PopColumns == <<ColName(2000), ColName(2002)>>

PopValues == {Num(v, 1) : v \in PopCounts} \cup {NaN}

PopRows(present, v) ==
    LET idx == SortedInts(present)
    IN  [i \in DOMAIN idx |-> [region |-> PopRegions[idx[i]], vals |-> v[idx[i]]]]

\* "Poblacion regiones Chile.dta": at most one row per region (a region may
\* have none), one column per year, a missing value being NaN.
PopTables ==
    {[columns |-> PopColumns, rows |-> PopRows(present, v)] :
        present \in SUBSET DOMAIN PopRegions,
        v \in [DOMAIN PopRegions -> [DOMAIN PopColumns -> PopValues]]}

AusRow(y, n, p) ==
    [year |-> Num(y, 1), n_ventas |-> Num(n, 1), population |-> Num(p, 1),
     ventas_per_capita |-> FDiv(Num(n, 1), Num(p, 1))]

\* "DAA Australia y pob.xlsx"
AusTables == {<< >>, <<AusRow(2002, 3, 4), AusRow(2002, 1, 2)>>}

Feature(code, shape) ==
    [codregion |-> Num(code, 1),
     geometry |-> [shape |-> shape, buffered |-> FALSE, rotations |-> << >>]]

\* "regiones.json": every region, a region missing, a region with two features
GeoTables ==
    {<<Feature(1, "a"), Feature(2, "b")>>,
     <<Feature(1, "a")>>,
     <<Feature(1, "a"), Feature(1, "c"), Feature(2, "b")>>}

(***************************************************************************)
(* The steps both scripts share, text for text.                            *)
(***************************************************************************)
valid_types ==
    {"ARRENDAMIENTO", "CESION", "COMPRAVENTA", "DACION EN PAGO",
     "DONACION", "LIQUIDACIÓN", "PERMUTA"}

num_to_roman ==
    [n \in 1..16 |->
        <<"I", "II", "III", "IV", "V", "VI", "VII", "VIII", "IX", "X", "XI",
          "XII", "XIII", "XIV", "XV", "XVI">>[n]]

\* Series.map(num_to_roman): a key the dict lacks maps to NaN
MapRoman(n) == IF n \in DOMAIN num_to_roman THEN num_to_roman[n] ELSE "nan"

\* astype(int)
AsInt(a) == a.n \div a.d

\* the filter with one type left out of the list
IsValidTypeNoPermuta(t) == t \in valid_types \ {"PERMUTA"}

IsValidType(t) == t \in valid_types

\* df[df["TipodeTransacción"].isin(valid_types)], the rename, astype(int)
FilterRename(f) ==
    LET keep == SelectSeq(f, LAMBDA r : IsValidType(r.TipodeTransaccion))
    IN  [i \in DOMAIN keep |->
            [region_id |-> keep[i].numero_region,
             year |-> AsInt(keep[i].RegistroAnoCBRActual),
             tipo |-> keep[i].TipodeTransaccion]]

KeyLess(a, b) ==
    \/ LexRank(a[1]) < LexRank(b[1])
    \/ a[1] = b[1] /\ a[2] < b[2]

RECURSIVE SortKeys(_)
SortKeys(S) ==
    IF S = {} THEN << >>
    ELSE LET m == CHOOSE x \in S : \A y \in S \ {x} : KeyLess(x, y)
         IN  <<m>> \o SortKeys(S \ {m})

GroupSize(df, key) ==
    Cardinality({i \in DOMAIN df : df[i].region_id = key[1] /\ df[i].year = key[2]})

\* df.groupby(["region_id","year"]).size().reset_index(name="n_ventas")
GroupCounts(df) ==
    LET keys == SortKeys({<<df[i].region_id, df[i].year>> : i \in DOMAIN df})
    IN  [i \in DOMAIN keys |->
            [region_id |-> keys[i][1], year |-> keys[i][2],
             n_ventas |-> GroupSize(df, keys[i])]]

ParseYear(name) == StrToInt(LStrip(name, "a"))

\* melt(id_vars="region", var_name="year", value_name="population"), the
\* year parsed from the column name, region_id mapped from the number
MeltPop(p) ==
    Flatten([c \in DOMAIN p.columns |->
        [i \in DOMAIN p.rows |->
            [region |-> p.rows[i].region,
             year |-> ParseYear(p.columns[c]),
             population |-> p.rows[i].vals[c],
             region_id |-> MapRoman(p.rows[i].region)]]])

\* the join with on=["region_id"] alone
MergeKeyEqRegionOnly(l, r) == l.region_id = r.region_id

MergeKeyEq(l, r) == l.region_id = r.region_id /\ l.year = r.year

MergeRow(l, population) ==
    [region_id |-> l.region_id, year |-> l.year, n_ventas |-> l.n_ventas,
     population |-> population]

\* the rows one row of counts gives with how="inner"
MergeMatchesInner(l, right) ==
    LET m == SelectSeq(right, LAMBDA r : l.region_id = r.region_id /\ l.year = r.year)
    IN  [j \in DOMAIN m |-> MergeRow(l, m[j].population)]

\* the rows of the join that one row of counts gives
MergeMatches(l, right) ==
    LET m == SelectSeq(right, LAMBDA r : MergeKeyEq(l, r))
    IN  IF m = << >> THEN <<MergeRow(l, NaN)>>
        ELSE [j \in DOMAIN m |-> MergeRow(l, m[j].population)]

\* counts.merge(pop[["region_id","year","population"]],
\*              on=["region_id","year"], how="left")
MergeLeft(left, right) ==
    Flatten([i \in DOMAIN left |-> MergeMatches(left[i], right)])

\* sorted(counts["year"].unique())
YearsOf(c) == SortedInts({c[i].year : i \in DOMAIN c})

(***************************************************************************)
(* Geometry.                                                               *)
(***************************************************************************)
\* geometry.buffer(0)
Buffer0(g) == [g EXCEPT !.buffered = TRUE]

\* unary_union(geometries).centroid
UnionCentroid(feats) == [centroid_of |-> {feats[i].geometry : i \in DOMAIN feats}]

\* geometry.rotate(angle, origin=(c.x, c.y))
Rotate(g, angle, origin) ==
    [g EXCEPT !.rotations = Append(@, [angle |-> angle, origin |-> origin])]

RotationDeg == 90

\* rename codregion -> region_num, astype(int), map(num_to_roman)
WithRegionId(f) ==
    [region_num |-> AsInt(f.codregion),
     region_id |-> MapRoman(AsInt(f.codregion)),
     geometry |-> f.geometry]

(***************************************************************************)
(* build_static.py                                                         *)
(***************************************************************************)
Per100k == 100000

\* lines 18-33: buffer(0), the rotation about the centroid, region_id
StaticGeometry(g) ==
    LET clean == [i \in DOMAIN g |-> [g[i] EXCEPT !.geometry = Buffer0(@)]]
        centrod == UnionCentroid(clean)
    IN  [i \in DOMAIN clean |->
            WithRegionId([clean[i] EXCEPT !.geometry = Rotate(@, RotationDeg, centrod)])]

\* counts["n_ventas"] / counts["population"] * 100000
VentasPer100k(n_ventas, population) ==
    FMul(FDiv(Num(n_ventas, 1), population), Per100k)

StaticRates(c) ==
    [i \in DOMAIN c |->
        [region_id |-> c[i].region_id, year |-> c[i].year,
         n_ventas |-> c[i].n_ventas, population |-> c[i].population,
         ventas_per_100k |-> VentasPer100k(c[i].n_ventas, c[i].population)]]

\* pop_chile of the loop body, lines 86-88
PopChile(cy) == FSum([i \in DOMAIN cy |-> cy[i].population])

\* abs_chile / pop_chile * 100000 if pop_chile else 0
TotalPer100k(abs_chile, pop_chile) ==
    IF Truthy(pop_chile) THEN FMul(FDiv(Num(abs_chile, 1), pop_chile), Per100k)
    ELSE Num(0, 1)

\* txt_aus of the loop body, lines 91-97: "" or the Australia part
StaticAusText(a, yr) ==
    LET ay == SelectSeq(a, LAMBDA r : r.year = yr)
    IN  IF ay # << >>
        THEN <<[who |-> "Australia", year |-> yr, total |-> AsInt(ay[1].n_ventas),
                rate |-> FMul(FDiv(ay[1].n_ventas, ay[1].population), Per100k)]>>
        ELSE << >>

\* one pass of the loop of lines 85-102: the text of year yr
StaticYearText(c, a, yr) ==
    LET cy == SelectSeq(c, LAMBDA r : r.year = yr)
        abs_chile == SumInts([i \in DOMAIN cy |-> cy[i].n_ventas])
    IN  <<[who |-> "Chile", year |-> yr, total |-> abs_chile,
           rate |-> TotalPer100k(abs_chile, PopChile(cy))]>>
        \o StaticAusText(a, yr)

\* year_text, keyed by str(yr)
BuildYearText(c, a) ==
    LET ys == YearsOf(c)
    IN  [key \in {IntToStr(ys[i]) : i \in DOMAIN ys} |->
            StaticYearText(c, a, StrToInt(key))]

\* One frame of px.choropleth(animation_frame="year"): the rows of one year,
\* named str(year).
Frame(c, yr) ==
    LET rows == SelectSeq(c, LAMBDA r : r.year = yr)
    IN  [name |-> IntToStr(yr),
         locations |-> [i \in DOMAIN rows |-> rows[i].region_id],
         z |-> [i \in DOMAIN rows |-> rows[i].ventas_per_100k],
         annotations |-> << >>]

\* The frames in the order of category_orders={"year": years}; plotly express
\* keeps them (and builds the slider) only when there is more than one.
FrameList(c, order) ==
    LET all == [i \in DOMAIN order |-> Frame(c, order[i])]
    IN  IF Len(all) > 1 THEN all ELSE << >>

\* lines 108-153: the figure with its frames, colour range and footnote
Choropleth(c, order, gmax) ==
    [frames |-> FrameList(c, order),
     range_color |-> <<Num(0, 1), gmax>>,
     annotations |-> <<"foot">>]

\* every frame annotated with the text of the first frame
AnnotateFirst(frames, texts) ==
    [i \in DOMAIN frames |->
        [frames[i] EXCEPT !.annotations =
            <<IF frames[1].name \in DOMAIN texts THEN texts[frames[1].name] ELSE << >> >>]]

\* lines 156-165: every frame gets the one annotation of its year
Annotate(frames, texts) ==
    [i \in DOMAIN frames |->
        [frames[i] EXCEPT !.annotations =
            <<IF frames[i].name \in DOMAIN texts THEN texts[frames[i].name] ELSE << >> >>]]

NoPop == [columns |-> << >>, rows |-> << >>]

NoFig == [frames |-> << >>, range_color |-> <<Num(0, 1), NaN>>, annotations |-> << >>]

NoCentroid == [centroid_of |-> {}]

NoOut == [year |-> 0, rows |-> << >>, range_color |-> <<Num(0, 1), NaN>>, text |-> << >>]

Init ==
    /\ script \in {"static", "dash"}
    /\ pc = "start"
    /\ file = << >> /\ pop_file = NoPop /\ aus_file = << >> /\ geo_file = << >>
    /\ counts = << >> /\ pop = << >> /\ global_max = NaN /\ aus = << >>
    /\ regions = << >> /\ chile_centroid = NoCentroid
    /\ years = << >> /\ year_text = << >> /\ fig = NoFig
    /\ gdf_map = << >> /\ out = NoOut

\* section 2, lines 18-42
StaticGeo ==
    /\ script = "static" /\ pc = "start"
    /\ \E g \in GeoTables :
         /\ geo_file' = g
         /\ regions' = StaticGeometry(g)
    /\ chile_centroid' = UnionCentroid([i \in DOMAIN geo_file' |->
                              [geo_file'[i] EXCEPT !.geometry = Buffer0(@)]])
    /\ pc' = "geo"
    /\ UNCHANGED <<script, file, pop_file, aus_file, counts, pop, global_max, aus,
                   years, year_text, fig, gdf_map, out>>

\* section 3, lines 45-56
StaticCounts ==
    /\ script = "static" /\ pc = "geo"
    /\ \E f \in RecordTables :
         /\ file' = f
         /\ counts' = GroupCounts(FilterRename(f))
    /\ pc' = "counts"
    /\ UNCHANGED <<script, pop_file, aus_file, geo_file, pop, global_max, aus, regions,
                   chile_centroid, years, year_text, fig, gdf_map, out>>

\* section 3, lines 58-70
StaticMerge ==
    /\ script = "static" /\ pc = "counts"
    /\ \E p \in PopTables :
         /\ pop_file' = p
         /\ pop' = MeltPop(p)
    /\ counts' = StaticRates(MergeLeft(counts, pop'))
    /\ global_max' = FMax([i \in DOMAIN counts' |-> counts'[i].ventas_per_100k])
    /\ pc' = "merged"
    /\ UNCHANGED <<script, file, aus_file, geo_file, aus, regions, chile_centroid,
                   years, year_text, fig, gdf_map, out>>

\* section 4, lines 73-81
StaticAus ==
    /\ script = "static" /\ pc = "merged"
    /\ \E a \in AusTables :
         /\ aus_file' = a
         /\ aus' = [i \in DOMAIN a |-> [a[i] EXCEPT !.year = AsInt(@)]]
    /\ pc' = "aus"
    /\ UNCHANGED <<script, file, pop_file, geo_file, counts, pop, global_max, regions,
                   chile_centroid, years, year_text, fig, gdf_map, out>>

\* section 5, lines 84-102
StaticYearTexts ==
    /\ script = "static" /\ pc = "aus"
    /\ year_text' = BuildYearText(counts, aus)
    /\ pc' = "texts"
    /\ UNCHANGED <<script, file, pop_file, aus_file, geo_file, counts, pop, global_max,
                   aus, regions, chile_centroid, years, fig, gdf_map, out>>

\* sections 5.1 to 8, lines 105-153
StaticFigure ==
    /\ script = "static" /\ pc = "texts"
    /\ years' = YearsOf(counts)
    /\ fig' = Choropleth(counts, years', global_max)
    /\ pc' = "figure"
    /\ UNCHANGED <<script, file, pop_file, aus_file, geo_file, counts, pop, global_max,
                   aus, regions, chile_centroid, year_text, gdf_map, out>>

\* sections 9 and 10, lines 156-173
StaticExport ==
    /\ script = "static" /\ pc = "figure"
    /\ fig' = [fig EXCEPT !.frames = Annotate(@, year_text)]
    /\ pc' = "done"
    /\ UNCHANGED <<script, file, pop_file, aus_file, geo_file, counts, pop, global_max,
                   aus, regions, chile_centroid, years, year_text, gdf_map, out>>

(***************************************************************************)
(* mapa_agua_dash.py                                                       *)
(***************************************************************************)
\* counts['n_ventas'] / counts['population']
VentasPerCapita(n_ventas, population) ==
    FDiv(Num(n_ventas, 1), population)

DashRates(c) ==
    [i \in DOMAIN c |->
        [region_id |-> c[i].region_id, year |-> c[i].year,
         n_ventas |-> c[i].n_ventas, population |-> c[i].population,
         ventas_per_capita |-> VentasPerCapita(c[i].n_ventas, c[i].population)]]

\* lines 81-85: buffer(0), region_id
DashGeometry(g) ==
    [i \in DOMAIN g |-> WithRegionId([g[i] EXCEPT !.geometry = Buffer0(@)])]

\* sorted(regions["region_id"].unique())
RegionIds(r) ==
    LET ids == {r[i].region_id : i \in DOMAIN r}
        ranks == SortedInts({LexRank(x) : x \in ids})
    IN  [i \in DOMAIN ranks |-> RomanLex[ranks[i]]]

\* pd.MultiIndex.from_product([region_ids, years])
FullIndex(region_ids, ys) ==
    Flatten([i \in DOMAIN region_ids |-> [j \in DOMAIN ys |-> <<region_ids[i], ys[j]>>]])

\* the row reindex(full, fill_value=0) gives for one label of the new index
ReindexRow(c, key) ==
    LET hit == SelectSeq(c, LAMBDA r : r.region_id = key[1] /\ r.year = key[2])
    IN  IF hit # << >> THEN hit[1]
        ELSE [region_id |-> key[1], year |-> key[2], n_ventas |-> 0,
              population |-> Num(0, 1), ventas_per_capita |-> Num(0, 1)]

\* the table without the reindex
ReindexSkipped(c, full) == c

\* counts.set_index(["region_id","year"]).reindex(full, fill_value=0).reset_index()
Reindex(c, full) ==
    [i \in DOMAIN full |-> ReindexRow(c, full[i])]

\* reindex raises on an index with duplicate labels
HasDuplicateKeys(c) ==
    \E i, j \in DOMAIN c : i < j /\ MergeKeyEq(c[i], c[j])

\* .merge(regions[["region_id","geometry"]], on="region_id", how="left")
MergeGeometry(rows, r) ==
    Flatten([i \in DOMAIN rows |->
        LET m == SelectSeq(r, LAMBDA f : f.region_id = rows[i].region_id)
        IN  [j \in DOMAIN m |->
                [region_id |-> rows[i].region_id, year |-> rows[i].year,
                 n_ventas |-> rows[i].n_ventas, population |-> rows[i].population,
                 ventas_per_capita |-> rows[i].ventas_per_capita,
                 geometry |-> m[j].geometry]]])

\* lines 91-104
BuildMap(c, r) ==
    MergeGeometry(Reindex(c, FullIndex(RegionIds(r), YearsOf(c))), r)

\* abs_total / total_population if total_population else 0
PercapTotal(abs_total, total_population) ==
    IF Truthy(total_population) THEN FDiv(Num(abs_total, 1), total_population)
    ELSE Num(0, 1)

\* australia_text, lines 176-185: "" or the Australia part
DashAusText(a, selected_year) ==
    LET aus_rows == SelectSeq(a, LAMBDA r : r.year = selected_year)
    IN  IF aus_rows # << >>
        THEN <<[who |-> "Australia", year |-> selected_year,
                total |-> aus_rows[1].n_ventas, rate |-> aus_rows[1].ventas_per_capita]>>
        ELSE << >>

\* positions of the rows of year selected_year in gdf_map
YearIndex(g, selected_year) ==
    SortedInts({i \in DOMAIN g : g[i].year = selected_year})

\* The body of the callback, lines 133-193, run on the table g: what it
\* returns for selected_year, and g as the call leaves it.  df_year is a copy:
\* the rotation and the location_id column are written to the copy.
UpdateMapOn(g, selected_year) ==
    LET idx == YearIndex(g, selected_year)
        df_year == [i \in DOMAIN idx |-> g[idx[i]]]
        abs_total == SumInts([i \in DOMAIN df_year |-> df_year[i].n_ventas])
        total_population == FSum([i \in DOMAIN df_year |-> df_year[i].population])
    IN  [gdf_map |-> g,
         out |->
           [year |-> selected_year,
            rows |-> [i \in DOMAIN df_year |->
                        [location_id |-> IntToStr(idx[i] - 1),
                         region_id |-> df_year[i].region_id,
                         ventas_per_capita |-> df_year[i].ventas_per_capita,
                         n_ventas |-> df_year[i].n_ventas,
                         population |-> df_year[i].population,
                         geometry |-> Rotate(df_year[i].geometry, RotationDeg,
                                             chile_centroid)]],
            range_color |-> <<Num(0, 1), global_max>>,
            text |-> <<[who |-> "Chile", year |-> selected_year, total |-> abs_total,
                        rate |-> PercapTotal(abs_total, total_population)]>>
                     \o DashAusText(aus, selected_year)]]

\* the callback without the copy: the rotation lands in gdf_map
update_map_inplace(selected_year) ==
    [gdf_map |->
        [i \in DOMAIN gdf_map |->
            IF gdf_map[i].year = selected_year
            THEN [gdf_map[i] EXCEPT !.geometry = Rotate(@, RotationDeg, chile_centroid)]
            ELSE gdf_map[i]],
     out |-> UpdateMapOn(gdf_map, selected_year).out]

\* the callback on the module-level gdf_map
update_map(selected_year) == UpdateMapOn(gdf_map, selected_year)

\* section 1, lines 19-39
DashCounts ==
    /\ script = "dash" /\ pc = "start"
    /\ \E f \in RecordTables :
         /\ file' = f
         /\ counts' = GroupCounts(FilterRename(f))
    /\ pc' = "counts"
    /\ UNCHANGED <<script, pop_file, aus_file, geo_file, pop, global_max, aus, regions,
                   chile_centroid, years, year_text, fig, gdf_map, out>>

\* section 2, lines 42-62
DashMerge ==
    /\ script = "dash" /\ pc = "counts"
    /\ \E p \in PopTables :
         /\ pop_file' = p
         /\ pop' = MeltPop(p)
    /\ counts' = DashRates(MergeLeft(counts, pop'))
    /\ global_max' = FMax([i \in DOMAIN counts' |-> counts'[i].ventas_per_capita])
    /\ pc' = "merged"
    /\ UNCHANGED <<script, file, aus_file, geo_file, aus, regions, chile_centroid,
                   years, year_text, fig, gdf_map, out>>

\* section 3, lines 65-78
DashAus ==
    /\ script = "dash" /\ pc = "merged"
    /\ \E a \in AusTables :
         /\ aus_file' = a
         /\ aus' = [i \in DOMAIN a |->
                      [year |-> AsInt(a[i].year), n_ventas |-> AsInt(a[i].n_ventas),
                       population |-> AsInt(a[i].population),
                       ventas_per_capita |-> a[i].ventas_per_capita]]
    /\ pc' = "aus"
    /\ UNCHANGED <<script, file, pop_file, geo_file, counts, pop, global_max, regions,
                   chile_centroid, years, year_text, fig, gdf_map, out>>

\* section 3 (geometry), lines 81-88
DashGeo ==
    /\ script = "dash" /\ pc = "aus"
    /\ \E g \in GeoTables :
         /\ geo_file' = g
         /\ regions' = DashGeometry(g)
    /\ chile_centroid' = UnionCentroid(regions')
    /\ pc' = "geo"
    /\ UNCHANGED <<script, file, pop_file, aus_file, counts, pop, global_max, aus,
                   years, year_text, fig, gdf_map, out>>

\* section 4, lines 91-104
DashMap ==
    /\ script = "dash" /\ pc = "geo"
    /\ years' = YearsOf(counts)
    /\ IF HasDuplicateKeys(counts)
       THEN pc' = "crashed" /\ gdf_map' = gdf_map
       ELSE pc' = "map" /\ gdf_map' = BuildMap(counts, regions)
    /\ UNCHANGED <<script, file, pop_file, aus_file, geo_file, counts, pop, global_max,
                   aus, regions, chile_centroid, year_text, fig, out>>

\* section 5, lines 107-124: the slider runs from years[0] to years[-1]
DashLayout ==
    /\ script = "dash" /\ pc = "map"
    /\ pc' = IF years = << >> THEN "crashed" ELSE "serving"
    /\ UNCHANGED <<script, file, pop_file, aus_file, geo_file, counts, pop, global_max,
                   aus, regions, chile_centroid, years, year_text, fig, gdf_map, out>>

\* section 6, lines 127-193: one selection on the slider
UpdateMap ==
    /\ script = "dash" /\ pc = "serving"
    /\ \E selected_year \in years[1]..years[Len(years)] :
         /\ gdf_map' = update_map(selected_year).gdf_map
         /\ out' = update_map(selected_year).out
    /\ UNCHANGED <<script, pc, file, pop_file, aus_file, geo_file, counts, pop,
                   global_max, aus, regions, chile_centroid, years, year_text, fig>>

Next ==
    \/ StaticGeo \/ StaticCounts \/ StaticMerge \/ StaticAus
    \/ StaticYearTexts \/ StaticFigure \/ StaticExport
    \/ DashCounts \/ DashMerge \/ DashAus \/ DashGeo \/ DashMap \/ DashLayout
    \/ UpdateMap

Spec == Init /\ [][Next]_vars

(***************************************************************************)
(* What the properties are stated in: the input files as read, and where   *)
(* each script stands.                                                     *)
(***************************************************************************)
SevenTypes ==
    {"ARRENDAMIENTO", "CESION", "COMPRAVENTA", "DACION EN PAGO", "DONACION",
     "LIQUIDACIÓN", "PERMUTA"}

RegionName == <<"I", "II">>

\* the records of region and year y whose type is one of the seven
ValidCount(region, y) ==
    Cardinality({i \in DOMAIN file :
        /\ file[i].numero_region = region
        /\ file[i].RegistroAnoCBRActual = Num(y, 1)
        /\ file[i].TipodeTransaccion \in SevenTypes})

\* the records of year y, of any region, whose type is one of the seven
TotalValid(y) ==
    Cardinality({i \in DOMAIN file :
        /\ file[i].RegistroAnoCBRActual = Num(y, 1)
        /\ file[i].TipodeTransaccion \in SevenTypes})

YearsWithValid == {y \in Years : TotalValid(y) > 0}

\* the population values the file records for region and year y
PopRecorded(region, y) ==
    {pop_file.rows[i].vals[c] :
        i \in {k \in DOMAIN pop_file.rows : RegionName[pop_file.rows[k].region] = region},
        c \in {k \in DOMAIN pop_file.columns : pop_file.columns[k] = ColName(y)}}

\* the population of all the regions of the file in year y
TotalPop(y) ==
    FSum(Flatten([c \in DOMAIN pop_file.columns |->
        IF pop_file.columns[c] = ColName(y)
        THEN [i \in DOMAIN pop_file.rows |-> pop_file.rows[i].vals[c]]
        ELSE << >>]))

BoundaryRegions == {RegionName[geo_file[i].codregion.n] : i \in DOMAIN geo_file}

OneFeaturePerRegion ==
    \A i, j \in DOMAIN geo_file : i # j => geo_file[i].codregion # geo_file[j].codregion

CountsBuilt ==
    \/ script = "static" /\ pc \notin {"start", "geo"}
    \/ script = "dash" /\ pc # "start"

Merged == CountsBuilt /\ pc # "counts"

TextsBuilt == script = "static" /\ pc \in {"texts", "figure", "done"}

Exported == script = "static" /\ pc = "done"

MapBuilt == script = "dash" /\ pc \in {"map", "serving"}

Answered == script = "dash" /\ pc = "serving" /\ out # NoOut

RowsOf(t, region, y) == {i \in DOMAIN t : t[i].region_id = region /\ t[i].year = y}

RateOf(row) ==
    IF script = "static" THEN row.ventas_per_100k ELSE row.ventas_per_capita

Zero == Num(0, 1)

\* the Chile part of the text of year y in the static export
StaticChile(y) == year_text[IntToStr(y)][1]

(***************************************************************************)
(* C1: in both scripts, for every (region, year) pair n_ventas is the      *)
(* number of records of that region and year whose type is one of the      *)
(* seven valid types; a record of another type counts nowhere, and a pair  *)
(* with no valid record has no row in counts.                              *)
(***************************************************************************)
C1_CountsAreValidRecords ==
    CountsBuilt =>
        /\ \A i \in DOMAIN counts :
              counts[i].region_id \in TxRegions /\ counts[i].year \in Years
        /\ \A region \in TxRegions, y \in Years :
              IF ValidCount(region, y) = 0
              THEN RowsOf(counts, region, y) = {}
              ELSE /\ Cardinality(RowsOf(counts, region, y)) = 1
                   /\ \A i \in RowsOf(counts, region, y) :
                         counts[i].n_ventas = ValidCount(region, y)

C1_Witness ==
    /\ CountsBuilt
    /\ \E region \in TxRegions, y \in Years :
          /\ ValidCount(region, y) = 1
          /\ \E k \in DOMAIN file :
                /\ file[k].numero_region = region
                /\ file[k].RegistroAnoCBRActual = Num(y, 1)
                /\ file[k].TipodeTransaccion \notin SevenTypes

(***************************************************************************)
(* C2: every per-capita division is guarded against a zero population:     *)
(* for every region-year rate and every yearly Chile total rate, in both   *)
(* scripts, a population of zero is never the divisor and the rate         *)
(* reported in that case is 0.                                             *)
(***************************************************************************)
C2_ZeroPopulationGivesZeroRate ==
    /\ Merged =>
          \A i \in DOMAIN counts :
              counts[i].population = Zero => RateOf(counts[i]) = Zero
    /\ TextsBuilt =>
          \A y \in YearsWithValid :
              PopChile(SelectSeq(counts, LAMBDA r : r.year = y)) = Zero
                  => StaticChile(y).rate = Zero
    /\ Answered =>
          (FSum([i \in DOMAIN out.rows |-> out.rows[i].population]) = Zero
              => out.text[1].rate = Zero)

(***************************************************************************)
(* C3: for every (region, year) pair with at least one valid transaction   *)
(* and a positive population entry, the regional rate is n_ventas divided  *)
(* by the population recorded for that region and that year, times 100000  *)
(* in build_static.py and times 1 in mapa_agua_dash.py; no count is        *)
(* paired with the population of another region or year.                   *)
(***************************************************************************)
C3_RateUsesOwnPopulation ==
    Merged =>
        \A region \in TxRegions, y \in Years :
            ValidCount(region, y) > 0 =>
                /\ RowsOf(counts, region, y) # {}
                /\ \A i \in RowsOf(counts, region, y) :
                      /\ counts[i].population \in PopRecorded(region, y) \cup {NaN}
                      /\ PopRecorded(region, y) # {}
                            => counts[i].population \in PopRecorded(region, y)
                      /\ \A v \in PopRecorded(region, y) :
                            (v.k = "num" /\ v.n > 0) =>
                                RateOf(counts[i]) =
                                    Num(ValidCount(region, y) * v.d
                                          * (IF script = "static" THEN 100000 ELSE 1),
                                        v.n)

C3_Witness ==
    /\ Merged
    /\ \E i, j \in DOMAIN counts :
          /\ counts[i].population = Num(1, 1)
          /\ counts[j].population # Num(1, 1)
          /\ RateOf(counts[i]).k = "num"
          /\ RateOf(counts[i]).n > 0

\* the melted population table holds at most one row per (region, year)
PopUnique(p) ==
    \A i, j \in DOMAIN p :
        i # j => ~(p[i].region_id = p[j].region_id /\ p[i].year = p[j].year)

(***************************************************************************)
(* C4: the population join is a left join: provided the population data    *)
(* holds at most one value per (region, year), every pair of counts before *)
(* the join is there exactly once after it with its n_ventas unchanged,    *)
(* with or without a population entry, and the join adds no pair.          *)
(***************************************************************************)
C4_LeftJoinKeepsCounts ==
    [][(pc = "counts" /\ pc' = "merged" /\ PopUnique(pop')) =>
          /\ \A i \in DOMAIN counts :
                /\ Cardinality(RowsOf(counts', counts[i].region_id, counts[i].year)) = 1
                /\ \A j \in RowsOf(counts', counts[i].region_id, counts[i].year) :
                      counts'[j].n_ventas = counts[i].n_ventas
          /\ \A j \in DOMAIN counts' :
                RowsOf(counts, counts'[j].region_id, counts'[j].year) # {}]_vars

C4_Witness ==
    /\ Merged
    /\ \E i, j \in DOMAIN counts :
          /\ PopRecorded(counts[i].region_id, counts[i].year) = {}
          /\ counts[i].population = NaN
          /\ PopRecorded(counts[j].region_id, counts[j].year) # {}
          /\ counts[j].population # NaN

(***************************************************************************)
(* C5: in the dashboard, provided each region has one boundary feature,    *)
(* df_map holds exactly one row for every pair (region of the boundary     *)
(* file, year occurring in counts); n_ventas is the aggregated count for   *)
(* a pair with valid transactions and 0 for a pair without any.            *)
(***************************************************************************)
C5_MapIsFullProduct ==
    (MapBuilt /\ OneFeaturePerRegion) =>
        /\ \A i \in DOMAIN gdf_map :
              gdf_map[i].region_id \in BoundaryRegions /\ gdf_map[i].year \in YearsWithValid
        /\ \A region \in BoundaryRegions, y \in YearsWithValid :
              /\ Cardinality(RowsOf(gdf_map, region, y)) = 1
              /\ \A i \in RowsOf(gdf_map, region, y) :
                    gdf_map[i].n_ventas = ValidCount(region, y)

C5_Witness ==
    /\ MapBuilt /\ OneFeaturePerRegion
    /\ \E i, j \in DOMAIN gdf_map :
          /\ gdf_map[i].n_ventas = 0
          /\ ValidCount(gdf_map[i].region_id, gdf_map[i].year) = 0
          /\ gdf_map[j].n_ventas > 0

(***************************************************************************)
(* C6: in both delivery modes the Chile total of the summary text of a     *)
(* year is the number of valid-type records registered in that year,       *)
(* summed over all regions of the transaction data; so the static export   *)
(* and the dashboard report the same total for the same year.              *)
(***************************************************************************)
C6_TotalIsAllValidRecordsOfYear ==
    /\ TextsBuilt =>
          \A y \in YearsWithValid :
              /\ IntToStr(y) \in DOMAIN year_text
              /\ StaticChile(y).total = TotalValid(y)
    /\ Answered => out.text[1].total = TotalValid(out.year)

(***************************************************************************)
(* C7: the yearly Chile rate of the summary text is the year's total       *)
(* divided by the total population of Chile for that year, the sum of the  *)
(* populations of all regions of the population data for that year (times  *)
(* the normalization factor), regions without a transaction that year      *)
(* included.                                                               *)
(***************************************************************************)
C7_ChileRateOverWholePopulation ==
    /\ TextsBuilt =>
          \A y \in YearsWithValid :
              TotalPop(y).n > 0 =>
                  StaticChile(y).rate =
                      Num(StaticChile(y).total * 100000 * TotalPop(y).d, TotalPop(y).n)
    /\ Answered =>
          (TotalPop(out.year).n > 0 =>
              out.text[1].rate =
                  Num(out.text[1].total * TotalPop(out.year).d, TotalPop(out.year).n))

\* what the callback returns for y on the table as section 4 built it
FirstSelection(y) == UpdateMapOn(BuildMap(counts, regions), y).out

SourceGeometries == {Buffer0(geo_file[i].geometry) : i \in DOMAIN geo_file}

(***************************************************************************)
(* C8: update_map leaves gdf_map, counts, aus, chile_centroid and the      *)
(* colour bound unchanged, so after any sequence of year selections what   *)
(* is returned for a year is what a first selection of that year returns;  *)
(* the displayed geometry is the source geometry rotated by 90 degrees     *)
(* exactly once.                                                           *)
(***************************************************************************)
C8_SelectionsAreIndependent ==
    (script = "dash" /\ pc = "serving") =>
        /\ gdf_map = BuildMap(counts, regions)
        /\ chile_centroid = UnionCentroid(DashGeometry(geo_file))
        /\ Answered =>
              /\ out = FirstSelection(out.year)
              /\ \A i \in DOMAIN out.rows :
                    \E g \in SourceGeometries :
                        out.rows[i].geometry =
                            [g EXCEPT !.rotations =
                                <<[angle |-> 90, origin |-> chile_centroid]>>]

C8_Witness ==
    /\ Answered
    /\ out.rows # << >>
    /\ out.year # years[1]

\* one frame per year of ys, in the order of ys, each with the one text of
\* its own year
FramesMatchYears(ys) ==
    /\ Len(fig.frames) = Len(ys)
    /\ \A i \in DOMAIN fig.frames :
          /\ fig.frames[i].name = IntToStr(ys[i])
          /\ i > 1 => ys[i - 1] < ys[i]
          /\ Len(fig.frames[i].annotations) = 1
          /\ fig.frames[i].annotations[1] # << >>
          /\ fig.frames[i].annotations[1] = year_text[IntToStr(ys[i])]
          /\ fig.frames[i].annotations[1][1].year = ys[i]

IsMaxRate(upper) ==
    /\ \A i \in DOMAIN counts :
          ~IsNaN(RateOf(counts[i])) => FLe(RateOf(counts[i]), upper)
    /\ (\E i \in DOMAIN counts : ~IsNaN(RateOf(counts[i])))
          => \E i \in DOMAIN counts : RateOf(counts[i]) = upper

WithinScale(rate, upper) ==
    ~IsNaN(rate) => FLe(Zero, rate) /\ FLe(rate, upper)

StaticScaleHolds ==
    Exported =>
        /\ IsMaxRate(fig.range_color[2])
        /\ fig.range_color[1] = Zero
        /\ \A f \in DOMAIN fig.frames : \A i \in DOMAIN fig.frames[f].z :
              WithinScale(fig.frames[f].z[i], fig.range_color[2])
        /\ \A i \in DOMAIN counts :
              WithinScale(counts[i].ventas_per_100k, fig.range_color[2])

DashScaleHolds ==
    /\ IsMaxRate(out.range_color[2])
    /\ out.range_color[1] = Zero
    /\ \A i \in DOMAIN out.rows :
          WithinScale(out.rows[i].ventas_per_capita, out.range_color[2])

SomeRateDefined == \E i \in DOMAIN counts : ~IsNaN(RateOf(counts[i]))

(***************************************************************************)
(* C10, as stated: the colour scale is fixed across years: its upper bound *)
(* is the maximum regional rate over all region-year pairs and is the same *)
(* for every frame and every selection, so every displayed region with a   *)
(* defined rate has 0 <= rate <= upper bound.                              *)
(***************************************************************************)
C10_RatesWithinFixedScale ==
    /\ StaticScaleHolds
    /\ Answered => DashScaleHolds

(***************************************************************************)
(* C10, as amended: the same, in the dashboard provided some region-year   *)
(* pair of counts has a defined rate; when none has, the upper bound of    *)
(* the dashboard is NaN.                                                   *)
(***************************************************************************)
C10_RatesWithinDefinedScale ==
    /\ StaticScaleHolds
    /\ (Answered /\ SomeRateDefined) => DashScaleHolds
    /\ (Answered /\ ~SomeRateDefined) => IsNaN(out.range_color[2])

C10_Witness ==
    /\ Answered
    /\ \E i, j \in DOMAIN out.rows :
          /\ out.rows[i].ventas_per_capita = Num(1, 1)
          /\ out.rows[j].ventas_per_capita = Zero
    /\ ~IsNaN(out.range_color[2])
    /\ ~FLe(out.range_color[2], Num(1, 1))

=============================================================================
